---- MODULE Spec2Model ----
(***************************************************************************)
(* SentraX: the asset-vulnerability link lifecycle.                        *)
(*                                                                         *)
(* The store is the three PostgreSQL tables of shared/schema.ts.  Every    *)
(* request is served by an async Express handler: the code between two     *)
(* awaited database statements is one atomic step, and the steps of        *)
(* different requests interleave freely.                                   *)
(***************************************************************************)
EXTENDS Integers, Sequences, FiniteSets, TLC

\* ---------------------------------------------------------------- bounds
NumProcs == 2          \* requests that can be in flight at once
MaxRequests == 2       \* requests served in one behaviour of Spec and SpecCreate
MaxTime == 2           \* the wall clock runs over 1..MaxTime
SeedAssets == 2        \* assets in the seeded stores
SeedVulns == 2         \* vulnerabilities in the seeded store of Init
SeedLinks == 1         \* links in the seeded store of Init
SeedLinksApi == 2      \* links in the seeded store of InitLinks
ScanVulns == 6         \* vulnerabilities in the seeded store of InitScan
ReadVulns == 3         \* vulnerabilities in the seeded store of InitRead

\* ------------------------------------------------------- program constants
ScanLimit == 5
RecentLimit == 5
Statuses == {"open", "remediated", "ignored", "pending_verification", "archived"}
DefaultStatus == "open"
Severities == {"critical", "high", "medium", "low", "informational"}

\* JavaScript values that are not data: an absent property, JSON null,
\* parseInt's NaN and the Invalid Date.
Undefined == "undefined"
Null == "null"
NaN == -1
InvalidDate == -1

Procs == 1..NumProcs

VARIABLES assets, vulns, links, nextLinkId, now, pc, req, loc, resp, budget

vars == <<assets, vulns, links, nextLinkId, now, pc, req, loc, resp, budget>>
store == <<assets, vulns, links, nextLinkId>>

\* ------------------------------------------------------------ JS helpers
\* The decimal strings a path parameter or body value can carry, by value.
Decimals == <<"0", "1", "2", "3", "4", "5", "6", "7", "8", "9">>
DecimalValue ==
    ("0" :> 0) @@ ("1" :> 1) @@ ("2" :> 2) @@ ("3" :> 3) @@ ("4" :> 4) @@
    ("5" :> 5) @@ ("6" :> 6) @@ ("7" :> 7) @@ ("8" :> 8) @@ ("9" :> 9)

\* Texts that begin with digits and go on with something else.
PrefixValue == ("1x" :> 1)

\* parseInt(x, 10): the number the leading decimal digits of a string denote,
\* NaN for a text that begins with none.
ParseInt(s) ==
    IF s \in DOMAIN DecimalValue THEN DecimalValue[s]
    ELSE IF s \in DOMAIN PrefixValue THEN PrefixValue[s]
    ELSE NaN

IsNaN(x) == x = NaN

\* new Date(x): a timestamp for a parseable string, the Invalid Date otherwise.
NewDate(s) ==
    IF s \in DOMAIN DecimalValue THEN DecimalValue[s]
    ELSE IF s = Null THEN 0
    ELSE InvalidDate

\* JavaScript truthiness of a body value.
Falsy(x) == x \in {Undefined, Null, ""}
Truthy(x) == ~Falsy(x)

\* A column value for an optional body property: an absent one is stored NULL.
Column(x) == IF x = Undefined THEN Null ELSE x

\* ------------------------------------------------------------- the store
AssetIds == {a.id : a \in assets}
VulnIds == {v.id : v \in vulns}

\* Rows of assets_vulnerabilities for one (assetId, vulnerabilityId) pair.
LinksFor(a, v) == {l \in links : l.assetId = a /\ l.vulnerabilityId = v}

\* findFirst on the pair: a row, or Null when there is none.
NoLink == [id |-> 0, assetId |-> 0, vulnerabilityId |-> 0, status |-> Null,
           lastSeenAt |-> 0, details |-> Null, remediationNotes |-> Null,
           updatedAt |-> 0]
FindAnyLink(a, v) ==
    IF {l \in links : l.vulnerabilityId = v} = {} THEN NoLink
    ELSE CHOOSE l \in links : l.vulnerabilityId = v
FindLink(a, v) ==
    IF LinksFor(a, v) = {} THEN NoLink ELSE CHOOSE l \in LinksFor(a, v) : TRUE

\* asset_vulnerability_unique_idx: a second row for the pair is refused.
NoUniqueIndex(a, v) == FALSE
UniqueViolation(a, v) == LinksFor(a, v) # {}

\* findFirst on assets / vulnerabilities by id, as a truth value.
AlwaysExists(a) == TRUE
AssetExists(a) == a \in AssetIds
VulnerabilityExists(v) == v \in VulnIds

\* The two foreign keys of assets_vulnerabilities.
NoForeignKey(a, v) == FALSE
ForeignKeyViolation(a, v) == a \notin AssetIds \/ v \notin VulnIds

\* The status column is a NOT NULL enum.
BadStatusColumn(s) == s \notin Statuses

\* Outcome of INSERT INTO assets_vulnerabilities: "ok" or the error raised.
InsertOutcome(a, v, s, seen) ==
    IF seen = InvalidDate THEN "invalid_date"
    ELSE IF BadStatusColumn(s) THEN "22P02"
    ELSE IF UniqueViolation(a, v) THEN "23505"
    ELSE IF ForeignKeyViolation(a, v) THEN "23503"
    ELSE "ok"

NewLink(a, v, s, seen, d, n) ==
    [id |-> nextLinkId, assetId |-> a, vulnerabilityId |-> v, status |-> s,
     lastSeenAt |-> seen, details |-> d, remediationNotes |-> n,
     updatedAt |-> now]

\* ON DELETE CASCADE of the two foreign keys.
NoCascade(ls, a) == ls
CascadeAsset(ls, a) == {l \in ls : l.assetId # a}
CascadeVuln(ls, v) == {l \in ls : l.vulnerabilityId # v}

\* ------------------------------------------------- requests and responses
\* req.session of a caller: none at all, one without a user, one of a user
\* who has logged in.
NoSession == [exists |-> FALSE, user |-> Undefined]
AnonymousSession == [exists |-> TRUE, user |-> Undefined]
UserSession == [exists |-> TRUE, user |-> "u1"]

\* The middleware every router installs before its routes.
AnySession(sn) == sn.exists
IsAuthenticated(sn) == sn.exists /\ Truthy(sn.user)

NoReq == [n |-> 0, op |-> "none", assetId |-> Undefined, vulnerabilityId |-> Undefined,
          joinId |-> Undefined, status |-> Undefined, details |-> Undefined,
          remediationNotes |-> Undefined, lastSeenAt |-> Undefined, name |-> Undefined,
          description |-> Undefined, severity |-> Undefined, session |-> UserSession]

NoResp == [status |-> 0, message |-> "", link |-> 0, newlyLinked |-> 0,
           updatedLinks |-> 0, vulnerabilitiesProcessed |-> 0, list |-> <<>>,
           totalAssets |-> 0, totalVulnerabilities |-> 0,
           totalOpenVulnerabilityInstances |-> 0,
           openVulnerabilitiesBySeverity |-> [sv \in Severities |-> 0]]

Reply(code, msg) == [NoResp EXCEPT !.status = code, !.message = msg]
ReplyLink(code, msg, id) == [NoResp EXCEPT !.status = code, !.message = msg, !.link = id]

\* Handler locals: the scan's batch and counters and the row findFirst
\* returned.  Two fields are history, not program state: before, the links
\* when a scan began, and rivals, the requests that were between check and
\* insert for the same pair when a CreateLink passed its own check.
NoLoc == [todo |-> <<>>, batch |-> 0, existing |-> NoLink, newlyLinked |-> 0,
          updatedLinks |-> 0, before |-> {}, rivals |-> {},
          totalAssets |-> 0, totalVulnerabilities |-> 0,
          totalOpenVulnerabilityInstances |-> 0]

Idle(p) == pc[p] \in {"idle", "done"}

\* The server accepts another request on connection p.
CanBegin(p) == Idle(p) /\ budget > 0

\* The caller on connection p passes the middleware.
Admitted(p) == IsAuthenticated(req[p].session)

\* A request begins: the middleware and, for a caller it admits, the
\* handler's synchronous prefix have run.
Begin(p, r, label, answer) ==
    /\ CanBegin(p)
    /\ budget' = budget - 1
    /\ req' = [req EXCEPT ![p] = [r EXCEPT !.n = budget, !.session = req[p].session]]
    /\ pc' = [pc EXCEPT ![p] = IF Admitted(p) THEN label ELSE "done"]
    /\ resp' = [resp EXCEPT ![p] = IF Admitted(p) THEN answer
                                   ELSE Reply(401, "Unauthorized. Please log in.")]
    /\ loc' = [loc EXCEPT ![p] = IF r.op = "ScanAsset"
                                 THEN [NoLoc EXCEPT !.before = links]
                                 ELSE NoLoc]

Finish(p, answer) ==
    /\ pc' = [pc EXCEPT ![p] = "done"]
    /\ resp' = [resp EXCEPT ![p] = answer]

Goto(p, label) ==
    /\ pc' = [pc EXCEPT ![p] = label]
    /\ UNCHANGED resp

ReqAsset(p) == ParseInt(req[p].assetId)
ReqVuln(p) == ParseInt(req[p].vulnerabilityId)
ReqJoin(p) == ParseInt(req[p].joinId)

\* ------------------------------------ POST /:assetId/vulnerabilities
CreateLinkValidation(r) ==
    IF IsNaN(ParseInt(r.assetId)) THEN "Invalid asset ID format."
    ELSE IF Falsy(r.vulnerabilityId) \/ IsNaN(ParseInt(r.vulnerabilityId))
         THEN "Valid vulnerabilityId is required in the body."
    ELSE IF Truthy(r.status) /\ r.status \notin Statuses THEN "Invalid status."
    ELSE "ok"

CreateLinkBegin(p, a, v, s, d, n, seen) ==
    LET r == [NoReq EXCEPT !.op = "CreateLink", !.assetId = a, !.vulnerabilityId = v,
                           !.status = s, !.details = d, !.remediationNotes = n,
                           !.lastSeenAt = seen]
        check == CreateLinkValidation(r)
    IN  /\ CanBegin(p)
        /\ IF check = "ok"
           THEN Begin(p, r, "cl_asset", NoResp)
           ELSE Begin(p, r, "done", Reply(400, check))
        /\ UNCHANGED <<store, now>>

CreateLinkFindAsset(p) ==
    /\ pc[p] = "cl_asset"
    /\ IF AssetExists(ReqAsset(p))
       THEN Goto(p, "cl_vuln")
       ELSE Finish(p, Reply(404, "Asset not found."))
    /\ UNCHANGED <<store, now, req, loc, budget>>

CreateLinkFindVuln(p) ==
    /\ pc[p] = "cl_vuln"
    /\ IF VulnerabilityExists(ReqVuln(p))
       THEN Goto(p, "cl_link")
       ELSE Finish(p, Reply(404, "Vulnerability not found."))
    /\ UNCHANGED <<store, now, req, loc, budget>>

\* Requests that have passed the existence check for the pair of p and have
\* not yet inserted.
AtInsert(p) ==
    {req[q].n : q \in {q \in Procs \ {p} : /\ pc[q] = "cl_insert"
                                           /\ ReqAsset(q) = ReqAsset(p)
                                           /\ ReqVuln(q) = ReqVuln(p)}}

\* The answer to a request whose pair is already linked.
SilentSuccess(existingLink) == ReplyLink(200, "linked", existingLink.id)
AlreadyLinked(existingLink) ==
    ReplyLink(409, "This vulnerability is already linked to this asset.", existingLink.id)

CreateLinkFindLink(p) ==
    /\ pc[p] = "cl_link"
    /\ LET existingLink == FindLink(ReqAsset(p), ReqVuln(p))
       IN  IF existingLink # NoLink
           THEN /\ Finish(p, AlreadyLinked(existingLink))
                /\ UNCHANGED loc
           ELSE /\ Goto(p, "cl_insert")
                /\ loc' = [loc EXCEPT ![p].rivals = AtInsert(p)]
    /\ UNCHANGED <<store, now, req, budget>>

\* The handler's catch block: the status a store error is answered with.
AlwaysInternalError(code) == Reply(500, "Internal server error.")
CreateLinkCatch(code) ==
    IF code = "23505"
    THEN Reply(409, "This vulnerability is already linked to this asset (DB constraint).")
    ELSE Reply(500, "Internal server error.")

CreateLinkInsert(p) ==
    /\ pc[p] = "cl_insert"
    /\ LET a == ReqAsset(p)
           v == ReqVuln(p)
           s == IF Truthy(req[p].status) THEN req[p].status ELSE DefaultStatus
           seen == IF Truthy(req[p].lastSeenAt) THEN NewDate(req[p].lastSeenAt) ELSE now
           row == NewLink(a, v, s, seen, Column(req[p].details),
                          Column(req[p].remediationNotes))
           outcome == InsertOutcome(a, v, s, seen)
       IN  IF outcome = "ok"
           THEN /\ links' = links \cup {row}
                /\ nextLinkId' = nextLinkId + 1
                /\ Finish(p, ReplyLink(201, "created", row.id))
           ELSE /\ UNCHANGED <<links, nextLinkId>>
                /\ Finish(p, CreateLinkCatch(outcome))
    /\ UNCHANGED <<assets, vulns, now, req, loc, budget>>

\* ------------------------------- PUT /:assetId/vulnerabilities/:joinId
UpdateLinkValidation(r) ==
    IF IsNaN(ParseInt(r.assetId)) \/ IsNaN(ParseInt(r.joinId))
    THEN "Invalid asset ID or join ID format."
    ELSE IF Truthy(r.status) /\ r.status \notin Statuses THEN "Invalid status."
    ELSE IF /\ r.status = Undefined /\ r.details = Undefined
            /\ r.remediationNotes = Undefined /\ r.lastSeenAt = Undefined
         THEN "No fields provided for update."
    ELSE "ok"

\* The row after SET updateData: supplied properties replace the columns and
\* $onUpdate refreshes updatedAt.
TouchLastSeen(l, r) ==
    [l EXCEPT !.status = IF r.status # Undefined THEN r.status ELSE @,
              !.details = IF r.details # Undefined THEN r.details ELSE @,
              !.remediationNotes = IF r.remediationNotes # Undefined
                                   THEN r.remediationNotes ELSE @,
              !.lastSeenAt = IF r.lastSeenAt # Undefined THEN NewDate(r.lastSeenAt) ELSE now,
              !.updatedAt = now]
ReopenOnUpdate(l, r) ==
    [l EXCEPT !.status = IF r.status # Undefined THEN r.status ELSE "open",
              !.details = IF r.details # Undefined THEN r.details ELSE @,
              !.updatedAt = now]
ApplyUpdate(l, r) ==
    [l EXCEPT !.status = IF r.status # Undefined THEN r.status ELSE @,
              !.details = IF r.details # Undefined THEN r.details ELSE @,
              !.remediationNotes = IF r.remediationNotes # Undefined
                                   THEN r.remediationNotes ELSE @,
              !.lastSeenAt = IF r.lastSeenAt # Undefined THEN NewDate(r.lastSeenAt) ELSE @,
              !.updatedAt = now]

\* Rows matched by WHERE id = joinId AND asset_id = assetId.
AnyAsset(l, a) == TRUE
SameAsset(l, a) == l.assetId = a
ScopedLinks(a, j) == {l \in links : l.id = j /\ SameAsset(l, a)}

\* Error raised by the UPDATE statement, "ok" when there is none: parameters
\* are converted before any row is looked at, NOT NULL is checked per row.
UpdateOutcome(r, rows) ==
    IF r.lastSeenAt # Undefined /\ NewDate(r.lastSeenAt) = InvalidDate THEN "invalid_date"
    ELSE IF r.status \notin Statuses \cup {Undefined, Null} THEN "22P02"
    ELSE IF r.status = Null /\ rows # {} THEN "23502"
    ELSE "ok"

UpdateLink(p, a, j, s, d, n, seen) ==
    LET r == [NoReq EXCEPT !.op = "UpdateLink", !.assetId = a, !.joinId = j,
                           !.status = s, !.details = d, !.remediationNotes = n,
                           !.lastSeenAt = seen]
        check == UpdateLinkValidation(r)
        rows == ScopedLinks(ParseInt(a), ParseInt(j))
        outcome == UpdateOutcome(r, rows)
    IN  /\ CanBegin(p)
        /\ IF ~Admitted(p)
           THEN /\ Begin(p, r, "done", NoResp)
                /\ UNCHANGED links
           ELSE IF check # "ok"
           THEN /\ Begin(p, r, "done", Reply(400, check))
                /\ UNCHANGED links
           ELSE IF outcome # "ok"
           THEN /\ Begin(p, r, "done", Reply(500, "Internal server error."))
                /\ UNCHANGED links
           ELSE IF rows = {}
           THEN /\ Begin(p, r, "done",
                         Reply(404, "Asset-vulnerability link not found or no changes made."))
                /\ UNCHANGED links
           ELSE /\ Begin(p, r, "done", ReplyLink(200, "updated", ParseInt(j)))
                /\ links' = (links \ rows) \cup {ApplyUpdate(l, r) : l \in rows}
        /\ UNCHANGED <<assets, vulns, nextLinkId, now>>

\* ---------------------------- DELETE /:assetId/vulnerabilities/:joinId
\* Rows removed by DELETE ... WHERE id = joinId AND asset_id = assetId.
AllOfAsset(a, j) == {l \in links : l.assetId = a}
DeletedLinks(a, j) == ScopedLinks(a, j)

DeleteLink(p, a, j) ==
    LET r == [NoReq EXCEPT !.op = "DeleteLink", !.assetId = a, !.joinId = j]
        rows == DeletedLinks(ParseInt(a), ParseInt(j))
    IN  /\ CanBegin(p)
        /\ IF ~Admitted(p)
           THEN /\ Begin(p, r, "done", NoResp)
                /\ UNCHANGED links
           ELSE IF IsNaN(ParseInt(a)) \/ IsNaN(ParseInt(j))
           THEN /\ Begin(p, r, "done", Reply(400, "Invalid asset ID or join ID format."))
                /\ UNCHANGED links
           ELSE IF rows = {}
           THEN /\ Begin(p, r, "done", Reply(404, "Asset-vulnerability link not found."))
                /\ UNCHANGED links
           ELSE /\ Begin(p, r, "done",
                         ReplyLink(200, "Vulnerability unlinked from asset successfully.",
                                   ParseInt(j)))
                /\ links' = links \ rows
        /\ UNCHANGED <<assets, vulns, nextLinkId, now>>

\* ------------------------------------------------- DELETE /:assetId
DeleteAsset(p, a) ==
    LET r == [NoReq EXCEPT !.op = "DeleteAsset", !.assetId = a]
        id == ParseInt(a)
    IN  /\ CanBegin(p)
        /\ IF ~Admitted(p)
           THEN /\ Begin(p, r, "done", NoResp)
                /\ UNCHANGED <<assets, links>>
           ELSE IF IsNaN(id)
           THEN /\ Begin(p, r, "done", Reply(400, "Invalid asset ID format."))
                /\ UNCHANGED <<assets, links>>
           ELSE IF id \notin AssetIds
           THEN /\ Begin(p, r, "done", Reply(404, "Asset not found."))
                /\ UNCHANGED <<assets, links>>
           ELSE /\ Begin(p, r, "done", Reply(200, "Asset deleted successfully."))
                /\ assets' = {x \in assets : x.id # id}
                /\ links' = CascadeAsset(links, id)
        /\ UNCHANGED <<vulns, nextLinkId, now>>

\* ----------------------------------- DELETE /vulnerabilities/:vulnerabilityId
DeleteVulnerability(p, v) ==
    LET r == [NoReq EXCEPT !.op = "DeleteVulnerability", !.vulnerabilityId = v]
        id == ParseInt(v)
    IN  /\ CanBegin(p)
        /\ IF ~Admitted(p)
           THEN /\ Begin(p, r, "done", NoResp)
                /\ UNCHANGED <<vulns, links>>
           ELSE IF IsNaN(id)
           THEN /\ Begin(p, r, "done", Reply(400, "Invalid vulnerability ID format."))
                /\ UNCHANGED <<vulns, links>>
           ELSE IF id \notin VulnIds
           THEN /\ Begin(p, r, "done", Reply(404, "Vulnerability not found."))
                /\ UNCHANGED <<vulns, links>>
           ELSE /\ Begin(p, r, "done", Reply(200, "Vulnerability deleted successfully."))
                /\ vulns' = {x \in vulns : x.id # id}
                /\ links' = CascadeVuln(links, id)
        /\ UNCHANGED <<assets, nextLinkId, now>>

\* ------------------------------------------------ POST /vulnerabilities
\* vulnerabilities_name_unique: the name is in use by a row other than id.
NameFree(name, id) == FALSE
NameTaken(name, id) == \E x \in vulns : x.id # id /\ x.name = name

\* The serial id of the next row: one above the greatest id handed out (no
\* vulnerability is deleted where vulnerabilities are created).
NextVulnId ==
    IF VulnIds = {} THEN 1
    ELSE 1 + CHOOSE m \in VulnIds : \A y \in VulnIds : y <= m

CreateVulnerabilityValidation(r) ==
    IF Falsy(r.name) \/ Falsy(r.description) \/ Falsy(r.severity)
    THEN "Name, description, and severity are required."
    ELSE IF r.severity \notin Severities THEN "Invalid severity."
    ELSE "ok"

CreateVulnerability(p, name, description, severity) ==
    LET r == [NoReq EXCEPT !.op = "CreateVulnerability", !.name = name,
                           !.description = description, !.severity = severity]
        check == CreateVulnerabilityValidation(r)
    IN  /\ CanBegin(p)
        /\ IF ~Admitted(p)
           THEN /\ Begin(p, r, "done", NoResp)
                /\ UNCHANGED vulns
           ELSE IF check # "ok"
           THEN /\ Begin(p, r, "done", Reply(400, check))
                /\ UNCHANGED vulns
           ELSE IF NameTaken(name, 0)
           THEN /\ Begin(p, r, "done",
                         Reply(409, "Vulnerability with this name already exists."))
                /\ UNCHANGED vulns
           ELSE /\ Begin(p, r, "done", ReplyLink(201, "created", NextVulnId))
                /\ vulns' = vulns \cup {[id |-> NextVulnId, name |-> name,
                                          severity |-> severity]}
        /\ UNCHANGED <<assets, links, nextLinkId, now>>

\* ------------------------------------ PUT /vulnerabilities/:vulnerabilityId
\* The body carries a name or nothing: the name column is NOT NULL and unique.
UpdateVulnerability(p, v, name) ==
    LET r == [NoReq EXCEPT !.op = "UpdateVulnerability", !.vulnerabilityId = v,
                           !.name = name]
        id == ParseInt(v)
    IN  /\ CanBegin(p)
        /\ IF ~Admitted(p)
           THEN /\ Begin(p, r, "done", NoResp)
                /\ UNCHANGED vulns
           ELSE IF IsNaN(id)
           THEN /\ Begin(p, r, "done", Reply(400, "Invalid vulnerability ID format."))
                /\ UNCHANGED vulns
           ELSE IF name = Undefined
           THEN /\ Begin(p, r, "done", Reply(400, "No fields provided for update."))
                /\ UNCHANGED vulns
           ELSE IF id \notin VulnIds
           THEN /\ Begin(p, r, "done", Reply(404, "Vulnerability not found or no changes made."))
                /\ UNCHANGED vulns
           ELSE IF name = Null
           THEN /\ Begin(p, r, "done",
                         Reply(500, "Internal server error while updating vulnerability."))
                /\ UNCHANGED vulns
           ELSE IF NameTaken(name, id)
           THEN /\ Begin(p, r, "done",
                         Reply(409, "Another vulnerability with this name already exists."))
                /\ UNCHANGED vulns
           ELSE /\ Begin(p, r, "done", Reply(200, "updated"))
                /\ vulns' = {IF x.id = id THEN [x EXCEPT !.name = name] ELSE x : x \in vulns}
        /\ UNCHANGED <<assets, links, nextLinkId, now>>

\* ------------------------------------------- GET /:assetId/vulnerabilities
RECURSIVE Descending(_)
\* ORDER BY key DESC over a set of <<key, row>> pairs: every sequence of the
\* rows in non-increasing key order (rows with equal keys come in any order).
Descending(P) ==
    IF P = {} THEN {<<>>}
    ELSE UNION {{<<x[2]>> \o q : q \in Descending(P \ {x})} :
                   x \in {x \in P : \A y \in P : y[1] <= x[1]}}

\* LEFT JOIN vulnerabilities / assets: the parent row, all NULL without one.
NoVuln == [id |-> 0, name |-> Null, severity |-> Null]
NoAsset == [id |-> 0, name |-> Null, lastScannedAt |-> Null]
JoinVuln(v) == IF v \in VulnIds THEN CHOOSE x \in vulns : x.id = v ELSE NoVuln
JoinAsset(a) == IF a \in AssetIds THEN CHOOSE x \in assets : x.id = a ELSE NoAsset

\* One element of the list response.
ListItem(l) ==
    [joinId |-> l.id, assetId |-> l.assetId, status |-> l.status, details |-> l.details,
     remediationNotes |-> l.remediationNotes, lastSeenAt |-> l.lastSeenAt,
     updatedAt |-> l.updatedAt, vulnerability |-> JoinVuln(l.vulnerabilityId)]

\* WHERE asset_id = assetId.
EveryLink(a) == links
LinksOfAsset(a) == {l \in links : l.assetId = a}

ListBegin(p, a) ==
    LET r == [NoReq EXCEPT !.op = "ListLinks", !.assetId = a]
    IN  /\ CanBegin(p)
        /\ IF IsNaN(ParseInt(a))
           THEN Begin(p, r, "done", Reply(400, "Invalid asset ID format."))
           ELSE Begin(p, r, "ls_asset", NoResp)
        /\ UNCHANGED <<store, now>>

ListFindAsset(p) ==
    /\ pc[p] = "ls_asset"
    /\ IF AssetExists(ReqAsset(p))
       THEN Goto(p, "ls_select")
       ELSE Finish(p, Reply(404, "Asset not found."))
    /\ UNCHANGED <<store, now, req, loc, budget>>

ListSelect(p) ==
    /\ pc[p] = "ls_select"
    /\ \E q \in Descending({<<l.lastSeenAt, ListItem(l)>> : l \in LinksOfAsset(ReqAsset(p))}) :
          Finish(p, [NoResp EXCEPT !.status = 200, !.list = q])
    /\ UNCHANGED <<store, now, req, loc, budget>>

\* --------------------------------------------------- POST /:assetId/scan
RECURSIVE DescById(_)
\* orderBy desc(id): the ids of a set, greatest first.
DescById(S) ==
    IF S = {} THEN <<>>
    ELSE LET m == CHOOSE x \in S : \A y \in S : y <= x
         IN  <<m>> \o DescById(S \ {m})

\* limit k.
NoLimit(q, k) == q
Limit(q, k) == IF Len(q) <= k THEN q ELSE SubSeq(q, 1, k)

\* The candidate batch: findMany({ orderBy: desc(id), limit: 5 }).
VulnerabilitiesToScan == Limit(DescById(VulnIds), ScanLimit)

ScanReply(msg, new, upd, n) ==
    [NoResp EXCEPT !.status = 200, !.message = msg, !.newlyLinked = new,
                   !.updatedLinks = upd, !.vulnerabilitiesProcessed = n]

\* The answer when there is nothing to scan for.
PlainReply == ScanReply("Simulated scan completed.", 0, 0, 0)
EmptyBatchReply ==
    ScanReply("Simulated scan completed. No vulnerabilities available in the system to scan for.",
              0, 0, 0)

ScanBegin(p, a) ==
    LET r == [NoReq EXCEPT !.op = "ScanAsset", !.assetId = a]
    IN  /\ CanBegin(p)
        /\ IF IsNaN(ParseInt(a))
           THEN Begin(p, r, "done", Reply(400, "Invalid asset ID format."))
           ELSE Begin(p, r, "sc_asset", NoResp)
        /\ UNCHANGED <<store, now>>

ScanFindAsset(p) ==
    /\ pc[p] = "sc_asset"
    /\ IF AssetExists(ReqAsset(p))
       THEN Goto(p, "sc_select")
       ELSE Finish(p, Reply(404, "Asset not found."))
    /\ UNCHANGED <<store, now, req, loc, budget>>

ScanSelect(p) ==
    /\ pc[p] = "sc_select"
    /\ LET batch == VulnerabilitiesToScan
       IN  IF Len(batch) = 0
           THEN /\ Finish(p, EmptyBatchReply)
                /\ UNCHANGED loc
           ELSE /\ Goto(p, "sc_find")
                /\ loc' = [loc EXCEPT ![p].todo = batch, ![p].batch = Len(batch)]
    /\ UNCHANGED <<store, now, req, budget>>

ScanFindLink(p) ==
    /\ pc[p] = "sc_find"
    /\ loc' = [loc EXCEPT ![p].existing = FindLink(ReqAsset(p), Head(loc[p].todo))]
    /\ Goto(p, "sc_write")
    /\ UNCHANGED <<store, now, req, budget>>

\* The row after the scan's SET updates: lastSeenAt always, status only when
\* the row findFirst returned was not open; $onUpdate refreshes updatedAt.
KeepStatus(l, existingLink) == [l EXCEPT !.lastSeenAt = now, !.updatedAt = now]
ScanUpdate(l, existingLink) ==
    [l EXCEPT !.lastSeenAt = now,
              !.status = IF existingLink.status # "open" THEN "open" ELSE @,
              !.updatedAt = now]

\* The loop's next iteration, or the response after the last one.
ScanAdvance(p, new, upd) ==
    LET rest == Tail(loc[p].todo)
    IN  /\ loc' = [loc EXCEPT ![p].todo = rest, ![p].newlyLinked = new,
                              ![p].updatedLinks = upd, ![p].existing = NoLink]
        /\ IF rest = <<>>
           THEN Finish(p, ScanReply("Simulated scan completed.", new, upd, loc[p].batch))
           ELSE Goto(p, "sc_find")

NoIncrement(n) == n
Increment(n) == n + 1

\* The links after the handler's catch.  Every statement of the loop was
\* committed on its own and the catch only answers: nothing is undone.
ScanRollback(p) == loc[p].before
ScanCatch(p) == links

ScanWrite(p) ==
    /\ pc[p] = "sc_write"
    /\ LET a == ReqAsset(p)
           v == Head(loc[p].todo)
           existingLink == loc[p].existing
           rows == {l \in links : l.id = existingLink.id}
           outcome == InsertOutcome(a, v, "open", now)
       IN  IF existingLink # NoLink
           THEN /\ links' = (links \ rows) \cup {ScanUpdate(l, existingLink) : l \in rows}
                /\ UNCHANGED nextLinkId
                /\ ScanAdvance(p, loc[p].newlyLinked, Increment(loc[p].updatedLinks))
           ELSE IF outcome = "ok"
           THEN /\ links' = links \cup {NewLink(a, v, "open", now, Null, Null)}
                /\ nextLinkId' = nextLinkId + 1
                /\ ScanAdvance(p, Increment(loc[p].newlyLinked), loc[p].updatedLinks)
           ELSE /\ links' = ScanCatch(p)
                /\ UNCHANGED <<nextLinkId, loc>>
                /\ Finish(p, Reply(500, "Internal server error during simulated scan."))
    /\ UNCHANGED <<assets, vulns, now, req, budget>>

\* ------------------------------------------------ GET /dashboard/statistics
OpenLinks == {l \in links : l.status = "open"}

\* The rows of the grouped query: one per severity that an open Link's
\* vulnerability has, with the number of those Links.
OpenBySeverityResult ==
    {[severity |-> sv,
      count |-> Cardinality({l \in OpenLinks : JoinVuln(l.vulnerabilityId).severity = sv})] :
        sv \in {JoinVuln(l.vulnerabilityId).severity : l \in OpenLinks}}

\* The accumulator the reduce builds: every severity at 0.
OnlyFound == [sv \in {} |-> 0]
AllSeveritiesZero == [sv \in Severities |-> 0]

\* forEach row with a severity: acc[row.severity] = row.count.
Populate(acc, rows) ==
    LET found == {row \in rows : Truthy(row.severity)}
    IN  [sv \in DOMAIN acc \cup {row.severity : row \in found} |->
            IF \E row \in found : row.severity = sv
            THEN (CHOOSE row \in found : row.severity = sv).count
            ELSE acc[sv]]

StatisticsBegin(p) ==
    /\ CanBegin(p)
    /\ Begin(p, [NoReq EXCEPT !.op = "Statistics"], "st_assets", NoResp)
    /\ UNCHANGED <<store, now>>

StatisticsCountAssets(p) ==
    /\ pc[p] = "st_assets"
    /\ loc' = [loc EXCEPT ![p].totalAssets = Cardinality(assets)]
    /\ Goto(p, "st_vulns")
    /\ UNCHANGED <<store, now, req, budget>>

StatisticsCountVulns(p) ==
    /\ pc[p] = "st_vulns"
    /\ loc' = [loc EXCEPT ![p].totalVulnerabilities = Cardinality(vulns)]
    /\ Goto(p, "st_open")
    /\ UNCHANGED <<store, now, req, budget>>

StatisticsCountOpen(p) ==
    /\ pc[p] = "st_open"
    /\ loc' = [loc EXCEPT ![p].totalOpenVulnerabilityInstances = Cardinality(OpenLinks)]
    /\ Goto(p, "st_severity")
    /\ UNCHANGED <<store, now, req, budget>>

StatisticsBySeverity(p) ==
    /\ pc[p] = "st_severity"
    /\ Finish(p, [NoResp EXCEPT
                     !.status = 200,
                     !.totalAssets = loc[p].totalAssets,
                     !.totalVulnerabilities = loc[p].totalVulnerabilities,
                     !.totalOpenVulnerabilityInstances = loc[p].totalOpenVulnerabilityInstances,
                     !.openVulnerabilitiesBySeverity =
                          Populate(AllSeveritiesZero, OpenBySeverityResult)])
    /\ UNCHANGED <<store, now, req, loc, budget>>

\* -------------------------------------- GET /dashboard/recent-vulnerabilities
\* One selected row: the Link with the columns of its two LEFT JOINs.
RecentItem(l) ==
    [joinId |-> l.id,
     vulnerabilityName |-> JoinVuln(l.vulnerabilityId).name,
     vulnerabilitySeverity |-> JoinVuln(l.vulnerabilityId).severity,
     assetName |-> JoinAsset(l.assetId).name,
     lastSeenOrUpdatedAt |-> l.updatedAt]

\* filter(item => item.vulnerabilityName && item.assetName)
HasNames(item) == Truthy(item.vulnerabilityName) /\ Truthy(item.assetName)

\* WHERE status = 'open'.
RecentCandidates == OpenLinks

RecentVulnerabilities(p) ==
    /\ CanBegin(p)
    /\ \E q \in Descending({<<l.updatedAt, RecentItem(l)>> : l \in RecentCandidates}) :
          Begin(p, [NoReq EXCEPT !.op = "RecentVulnerabilities"], "done",
                [NoResp EXCEPT !.status = 200,
                               !.list = SelectSeq(Limit(q, RecentLimit), HasNames)])
    /\ UNCHANGED <<store, now>>

\* ------------------------------------------------------------ the clock
Tick ==
    /\ now < MaxTime
    /\ now' = now + 1
    /\ UNCHANGED <<store, pc, req, loc, resp, budget>>

\* ------------------------------------------------------- seeded stores
\* A store the API can have built: rows created at time 0, ids in creation
\* order, every link on an existing asset and vulnerability, one per pair.
SeverityList == <<"critical", "high", "medium", "low", "informational">>
StatusList == <<"open", "remediated", "ignored", "pending_verification", "archived">>
SeedName(i) == Decimals[i + 1]
SeedAsset(i) == [id |-> i, name |-> SeedName(i), lastScannedAt |-> Null]
SeedVuln(i) == [id |-> i, name |-> SeedName(i), severity |-> SeverityList[((i - 1) % 5) + 1]]

RECURSIVE SeedRows(_, _, _)
\* One link per pair of the set, ids from k upwards; the statuses rotate
\* through the closed set, starting r places in.
SeedRows(pairs, r, k) ==
    IF pairs = {} THEN {}
    ELSE LET pr == CHOOSE x \in pairs :
                     \A y \in pairs : x[1] < y[1] \/ (x[1] = y[1] /\ x[2] <= y[2])
         IN  {[id |-> k, assetId |-> pr[1], vulnerabilityId |-> pr[2],
               status |-> StatusList[((r + pr[2]) % 5) + 1],
               lastSeenAt |-> 0, details |-> Null, remediationNotes |-> Null,
               updatedAt |-> 0]} \cup SeedRows(pairs \ {pr}, r, k + 1)

IdleProcs ==
    /\ pc = [p \in Procs |-> "idle"]
    /\ req = [p \in Procs |-> NoReq]
    /\ loc = [p \in Procs |-> NoLoc]
    /\ resp = [p \in Procs |-> NoResp]

Seeded(pairs, r) ==
    /\ links = SeedRows(pairs, r, 1)
    /\ nextLinkId = Cardinality(pairs) + 1
    /\ now = 1
    /\ IdleProcs

Init ==
    /\ assets = {SeedAsset(i) : i \in 1..SeedAssets}
    /\ vulns = {SeedVuln(i) : i \in 1..SeedVulns}
    /\ \E pairs \in SUBSET ((1..SeedAssets) \X (1..SeedVulns)), r \in 0..4 :
          /\ Cardinality(pairs) <= SeedLinks
          /\ pairs = {} => r = 0
          /\ Seeded(pairs, r)
    /\ budget = MaxRequests

\* ------------------------------------------------- concurrent requests
AssetParams == {Decimals[i + 1] : i \in 1..SeedAssets}
VulnParams == {Decimals[i + 1] : i \in 1..SeedVulns}
JoinParams == {Decimals[i + 1] : i \in 1..2}

\* Bodies of the concurrent UpdateLink requests: <<status, details>>.
UpdateBodies == {<<"remediated", Undefined>>, <<Undefined, "d1">>}

CreateLinkSteps ==
    \/ \E p \in Procs : CreateLinkFindAsset(p)
    \/ \E p \in Procs : CreateLinkFindVuln(p)
    \/ \E p \in Procs : CreateLinkFindLink(p)
    \/ \E p \in Procs : CreateLinkInsert(p)

ScanSteps ==
    \/ \E p \in Procs : ScanFindAsset(p)
    \/ \E p \in Procs : ScanSelect(p)
    \/ \E p \in Procs : ScanFindLink(p)
    \/ \E p \in Procs : ScanWrite(p)

Next ==
    \/ \E p \in Procs, a \in AssetParams, v \in VulnParams, s \in {Undefined, "remediated"} :
          CreateLinkBegin(p, a, v, s, Undefined, Undefined, Undefined)
    \/ CreateLinkSteps
    \/ \E p \in Procs, a \in AssetParams, j \in JoinParams, b \in UpdateBodies :
          UpdateLink(p, a, j, b[1], b[2], Undefined, Undefined)
    \/ \E p \in Procs, a \in AssetParams, j \in JoinParams : DeleteLink(p, a, j)
    \/ \E p \in Procs, a \in AssetParams : DeleteAsset(p, a)
    \/ \E p \in Procs, v \in VulnParams : DeleteVulnerability(p, v)
    \/ \E p \in Procs, a \in AssetParams : ScanBegin(p, a)
    \/ ScanSteps
    \/ Tick

Spec == Init /\ [][Next]_vars

\* ------------------------------------------- racing CreateLink requests
\* Only CreateLink requests are served, with every kind of body.
StatusInputs == {Undefined, "archived", "bogus"}
DetailInputs == {Undefined, "d1"}

NextCreate ==
    \/ \E p \in Procs, a \in AssetParams, s \in StatusInputs, d \in DetailInputs :
          CreateLinkBegin(p, a, "1", s, d, Undefined, Undefined)
    \/ CreateLinkSteps
    \/ Tick

SpecCreate == Init /\ [][NextCreate]_vars

\* ------------------------------------------- one link request, any body
\* One CreateLink, UpdateLink or DeleteLink is served, on a store of up to
\* SeedLinksApi links, with every kind of body.
InitLinks ==
    /\ assets = {SeedAsset(i) : i \in 1..SeedAssets}
    /\ vulns = {SeedVuln(i) : i \in 1..SeedVulns}
    /\ \E pairs \in SUBSET ((1..SeedAssets) \X (1..SeedVulns)), r \in 0..4 :
          /\ Cardinality(pairs) <= SeedLinksApi
          /\ pairs = {} => r = 0
          /\ Seeded(pairs, r)
    /\ budget = 1

BodyStatuses == {Undefined, Null, "", "ignored", "bogus"}
BodyNotes == {Undefined, "n1"}
BodyDates == {Undefined, "2", "x"}

NextLinks ==
    \/ \E p \in Procs :
          /\ CanBegin(p)
          /\ \E a \in AssetParams, v \in VulnParams, s \in BodyStatuses,
                d \in DetailInputs, seen \in BodyDates :
                CreateLinkBegin(p, a, v, s, d, Undefined, seen)
    \/ CreateLinkSteps
    \/ \E p \in Procs :
          /\ CanBegin(p)
          /\ \E a \in AssetParams, j \in JoinParams, s \in BodyStatuses,
                d \in DetailInputs, n \in BodyNotes, seen \in BodyDates :
                UpdateLink(p, a, j, s, d, n, seen)
    \/ \E p \in Procs, a \in AssetParams, j \in JoinParams : DeleteLink(p, a, j)
    \/ Tick

SpecLinks == InitLinks /\ [][NextLinks]_vars

\* --------------------------------------- link requests with any parameters
\* One CreateLink or UpdateLink is served whose path parameters and body
\* may be missing, malformed, or name rows that do not exist.
IdInputs == {"1", Decimals[SeedAssets + 2], "x", "1x"}
BodyIds == {Undefined, "1", Decimals[SeedVulns + 2], "x"}

NextValid ==
    \/ \E p \in Procs :
          /\ CanBegin(p)
          /\ \E a \in IdInputs, v \in BodyIds, s \in BodyStatuses :
                CreateLinkBegin(p, a, v, s, Undefined, Undefined, Undefined)
    \/ CreateLinkSteps
    \/ \E p \in Procs :
          /\ CanBegin(p)
          /\ \E a \in IdInputs, j \in IdInputs, s \in BodyStatuses, d \in DetailInputs :
                UpdateLink(p, a, j, s, d, Undefined, Undefined)
    \/ Tick

SpecValid == InitLinks /\ [][NextValid]_vars

\* ------------------------------------------------- one scan, undisturbed
\* The store holds the first k vulnerabilities; asset 1 is linked to any of
\* them, asset 2 to all or none; one scan request is served.
InitScan ==
    /\ assets = {SeedAsset(i) : i \in 1..SeedAssets}
    /\ \E k \in 0..ScanVulns, r \in 0..4 :
          /\ vulns = {SeedVuln(i) : i \in 1..k}
          /\ \E linked \in SUBSET (1..k), other \in {{}, 1..k} :
                Seeded(({1} \X linked) \cup ({2} \X other), r)
          /\ k = 0 => r = 0
    /\ budget = 1

ScanParams == AssetParams \cup {Decimals[SeedAssets + 2]}

NextScan ==
    \/ \E p \in Procs, a \in ScanParams : ScanBegin(p, a)
    \/ ScanSteps
    \/ Tick

SpecScan == InitScan /\ [][NextScan]_vars

\* ------------------------------------------- one scan of annotated links
\* The store holds ScanVulns vulnerabilities; asset 1 is linked to any of
\* them, asset 2 to all or none, and every Link carries details and
\* remediation notes; one scan request is served.
Annotated(l) == [l EXCEPT !.details = "d1", !.remediationNotes = "n1"]

InitFrame ==
    /\ assets = {SeedAsset(i) : i \in 1..SeedAssets}
    /\ vulns = {SeedVuln(i) : i \in 1..ScanVulns}
    /\ \E linked \in SUBSET (1..ScanVulns), other \in {{}, 1..ScanVulns}, r \in 0..4 :
          LET pairs == ({1} \X linked) \cup ({2} \X other)
          IN  /\ links = {Annotated(l) : l \in SeedRows(pairs, r, 1)}
              /\ nextLinkId = Cardinality(pairs) + 1
    /\ now = 1
    /\ IdleProcs
    /\ budget = 1

SpecFrame == InitFrame /\ [][NextScan]_vars

\* ------------------------------------------------ two scans in a row
\* Two scan requests are served one after the other: the second is sent
\* when no request is being served.
InitTwice ==
    /\ assets = {SeedAsset(i) : i \in 1..SeedAssets}
    /\ vulns = {SeedVuln(i) : i \in 1..ScanVulns}
    /\ \E linked \in SUBSET (1..ScanVulns), other \in {{}, 1..ScanVulns}, r \in 0..4 :
          Seeded(({1} \X linked) \cup ({2} \X other), r)
    /\ budget = MaxRequests

Quiet == \A q \in Procs : Idle(q)

NextTwice ==
    \/ \E p \in Procs, a \in ScanParams : Quiet /\ ScanBegin(p, a)
    \/ ScanSteps
    \/ Tick

SpecTwice == InitTwice /\ [][NextTwice]_vars

\* ------------------------------------------------------ the read routes
\* The store holds ReadVulns vulnerabilities; asset 1 is linked to any of
\* them, asset 2 to all or none.  The Links were last seen and last written
\* at different times, and are all in one status or in rotating ones.  Two
\* requests are served: list, statistics, recent vulnerabilities, and the
\* renaming of a vulnerability.
Aged(l, r, m, t) ==
    [l EXCEPT !.status = IF m = 0 THEN StatusList[r + 1] ELSE @,
              !.lastSeenAt = (l.id * t) % 3,
              !.updatedAt = (l.id * t + 1) % 3]

ReadPatterns == {<<0, 0>>, <<0, 1>>, <<3, 1>>}

InitRead ==
    /\ assets = {SeedAsset(i) : i \in 1..SeedAssets}
    /\ vulns = {SeedVuln(i) : i \in 1..ReadVulns}
    /\ \E linked \in SUBSET (1..ReadVulns), other \in {{}, 1..ReadVulns},
          rm \in ReadPatterns, t \in 1..2 :
          LET pairs == ({1} \X linked) \cup ({2} \X other)
          IN  /\ links = {Aged(l, rm[1], rm[2], t) : l \in SeedRows(pairs, rm[1], 1)}
              /\ nextLinkId = Cardinality(pairs) + 1
    /\ now = MaxTime
    /\ IdleProcs
    /\ budget = MaxRequests

ReadVulnParams == {Decimals[i + 1] : i \in 1..ReadVulns}
NameInputs == {Undefined, "", "n1"}

ListSteps ==
    \/ \E p \in Procs : ListFindAsset(p)
    \/ \E p \in Procs : ListSelect(p)

StatisticsSteps ==
    \/ \E p \in Procs : StatisticsCountAssets(p)
    \/ \E p \in Procs : StatisticsCountVulns(p)
    \/ \E p \in Procs : StatisticsCountOpen(p)
    \/ \E p \in Procs : StatisticsBySeverity(p)

NextRead ==
    \/ \E p \in Procs, v \in ReadVulnParams, name \in NameInputs :
          UpdateVulnerability(p, v, name)
    \/ \E p \in Procs, a \in ScanParams : ListBegin(p, a)
    \/ ListSteps
    \/ \E p \in Procs : StatisticsBegin(p)
    \/ StatisticsSteps
    \/ \E p \in Procs : RecentVulnerabilities(p)

SpecRead == InitRead /\ [][NextRead]_vars

\* ------------------------------------------ statistics under mutation
\* Statistics is served while Links are updated and deleted.
NextStats ==
    \/ \E p \in Procs : StatisticsBegin(p)
    \/ StatisticsSteps
    \/ \E p \in Procs, a \in AssetParams, j \in JoinParams, b \in UpdateBodies :
          UpdateLink(p, a, j, b[1], b[2], Undefined, Undefined)
    \/ \E p \in Procs, a \in AssetParams, j \in JoinParams : DeleteLink(p, a, j)
    \/ Tick

SpecStats == Init /\ [][NextStats]_vars

\* ------------------------------------------- the vulnerability catalogue
\* Vulnerabilities are created and renamed, with names in use and new ones.
VulnNames == NameInputs \cup {SeedName(1)}
SeverityInputs == {Undefined, "high", "bogus"}

NextVuln ==
    \/ \E p \in Procs :
          /\ CanBegin(p)
          /\ \E name \in VulnNames, d \in DetailInputs, sv \in SeverityInputs :
                CreateVulnerability(p, name, d, sv)
    \/ \E p \in Procs :
          /\ CanBegin(p)
          /\ \E v \in ReadVulnParams, name \in VulnNames : UpdateVulnerability(p, v, name)
    \/ Tick

SpecVuln == Init /\ [][NextVuln]_vars

\* ------------------------------------------------- callers of every kind
\* One request of any route is served; each connection carries no session,
\* a session without a user, or the session of a logged-in user.
Sessions == {NoSession, AnonymousSession, UserSession}

InitAuth ==
    /\ assets = {SeedAsset(i) : i \in 1..SeedAssets}
    /\ vulns = {SeedVuln(i) : i \in 1..SeedVulns}
    /\ \E pairs \in SUBSET ((1..SeedAssets) \X (1..SeedVulns)), r \in 0..4 :
          /\ Cardinality(pairs) <= SeedLinks
          /\ pairs = {} => r = 0
          /\ links = SeedRows(pairs, r, 1)
          /\ nextLinkId = Cardinality(pairs) + 1
    /\ now = 1
    /\ pc = [p \in Procs |-> "idle"]
    /\ \E sn \in [Procs -> Sessions] : req = [p \in Procs |-> [NoReq EXCEPT !.session = sn[p]]]
    /\ loc = [p \in Procs |-> NoLoc]
    /\ resp = [p \in Procs |-> NoResp]
    /\ budget = 1

\* Path parameters: ids of records, an id no record has, and text that is
\* no number.
AnyIds == ScanParams \cup {"x"}

NextAuth ==
    \/ \E p \in Procs :
          /\ CanBegin(p)
          /\ \E a \in AnyIds, v \in AnyIds, s \in {Undefined, "bogus"} :
                CreateLinkBegin(p, a, v, s, Undefined, Undefined, Undefined)
    \/ CreateLinkSteps
    \/ \E p \in Procs :
          /\ CanBegin(p)
          /\ \E a \in AnyIds, j \in AnyIds, s \in {Undefined, "remediated", "bogus"} :
                UpdateLink(p, a, j, s, Undefined, Undefined, Undefined)
    \/ \E p \in Procs, a \in AnyIds, j \in AnyIds : DeleteLink(p, a, j)
    \/ \E p \in Procs, a \in AnyIds : DeleteAsset(p, a)
    \/ \E p \in Procs, v \in AnyIds : DeleteVulnerability(p, v)
    \/ \E p \in Procs, v \in AnyIds, name \in NameInputs : UpdateVulnerability(p, v, name)
    \/ \E p \in Procs, a \in AnyIds : ScanBegin(p, a)
    \/ ScanSteps
    \/ \E p \in Procs, a \in AnyIds : ListBegin(p, a)
    \/ ListSteps
    \/ \E p \in Procs : StatisticsBegin(p)
    \/ StatisticsSteps
    \/ \E p \in Procs : RecentVulnerabilities(p)
    \/ Tick

SpecAuth == InitAuth /\ [][NextAuth]_vars

\* ------------------------------------------------------------ properties
\* Steps of one request, told apart by what they change.
Began(p) == req'[p].n # req[p].n
Answered(p) == pc'[p] = "done" /\ (pc[p] # "done" \/ Began(p))
Serving(p, op) == pc[p] = "done" /\ req[p].op = op
LinksIn(ls, a, v) == {l \in ls : l.assetId = a /\ l.vulnerabilityId = v}
DbConstraintMessage == "This vulnerability is already linked to this asset (DB constraint)."

\* C1: in every reachable state, whatever the interleaving of CreateLink,
\* ScanAsset, UpdateLink, DeleteLink and the asset and vulnerability deletes,
\* at most one Link exists for each (assetId, vulnerabilityId) pair.
C1_OneLinkPerPair ==
    \A l1, l2 \in links :
        (l1.assetId = l2.assetId /\ l1.vulnerabilityId = l2.vulnerabilityId) => l1 = l2

\* Two requests raced for one pair: one of them was refused by the index
\* after its own existence check had found no row.
C1_Witness ==
    \E p \in Procs :
        /\ Serving(p, "CreateLink")
        /\ resp[p].message = DbConstraintMessage
        /\ LinksFor(ReqAsset(p), ReqVuln(p)) # {}

\* A CreateLink step that answers while a Link for its pair exists.
AnswersOnLinkedPair(p) ==
    /\ Answered(p)
    /\ req'[p].op = "CreateLink"
    /\ LinksFor(ParseInt(req'[p].assetId), ParseInt(req'[p].vulnerabilityId)) # {}

Raced(p, q) ==
    /\ p # q
    /\ Serving(p, "CreateLink") /\ Serving(q, "CreateLink")
    /\ req[q].n \in loc[p].rivals

\* C3: of two CreateLink requests for one pair that both pass the existence
\* check before either inserts, exactly one answers 201 and the other 409,
\* neither answers 500, and exactly one Link exists for the pair afterwards.
C3_RaceHasOneWinner ==
    \A p, q \in Procs :
        Raced(p, q) =>
           /\ {resp[p].status, resp[q].status} = {201, 409}
           /\ Cardinality(LinksFor(ReqAsset(p), ReqVuln(p))) = 1

C3_Witness == \E p, q \in Procs : Raced(p, q)

\* A scan's insert step that runs into the unique index: findFirst had found
\* no row for the candidate, and one exists now.
ScanInsertCollides(p) ==
    /\ pc[p] = "sc_write" /\ pc'[p] # "sc_write"
    /\ loc[p].existing = NoLink
    /\ LinksFor(ReqAsset(p), Head(loc[p].todo)) # {}

\* C4: when a scan's insert hits the uniqueness constraint because a
\* concurrent request linked the pair after the scan's existence check, the
\* scan updates the existing Link instead and goes on to its 200 result.
C4_ScanRecovers ==
    [][\A p \in Procs :
          ScanInsertCollides(p) =>
             /\ resp'[p].status # 500
             /\ \A l \in LinksIn(links', ReqAsset(p), Head(loc[p].todo)) :
                   l.lastSeenAt = now /\ l.status = "open"]_vars

\* A scan's write step for a candidate whose Link findFirst had found.
ScanRefreshes(p) ==
    /\ pc[p] = "sc_write" /\ pc'[p] # "sc_write"
    /\ loc[p].existing # NoLink

\* The scan of p answers 200 in this step.
ScanCompletes(p) ==
    /\ Answered(p)
    /\ req'[p].op = "ScanAsset"
    /\ resp'[p].status = 200

\* The candidate batch, from the store: the vulnerabilities with fewer than
\* five greater ids.
Candidates == {v \in VulnIds : Cardinality({w \in VulnIds : w > v}) < 5}

\* C5: for every candidate V of ScanAsset(A) whose Link (A, V) exists in a
\* non-open status, the scan sets that Link's status to open and its
\* lastSeenAt to the scan time, keeps its id, and counts it under
\* updatedLinks, not newlyLinked.
C5_ReseenReopens ==
    [][\A p \in Procs :
          /\ (ScanRefreshes(p) /\ loc[p].existing.status # "open") =>
                /\ \E l \in links' :
                      /\ l.id = loc[p].existing.id
                      /\ l.assetId = ReqAsset(p)
                      /\ l.vulnerabilityId = Head(loc[p].todo)
                      /\ l.status = "open"
                      /\ l.lastSeenAt = now
                /\ loc'[p].updatedLinks = loc[p].updatedLinks + 1
                /\ loc'[p].newlyLinked = loc[p].newlyLinked
          /\ ScanCompletes(p) =>
                \A old \in loc[p].before :
                   (/\ old.assetId = ReqAsset(p)
                    /\ old.vulnerabilityId \in Candidates
                    /\ old.status # "open") =>
                      \E l \in links' :
                         /\ l.id = old.id
                         /\ l.status = "open"
                         /\ l.lastSeenAt > old.lastSeenAt]_vars

\* A scan has answered 200 after reopening an archived and a remediated Link.
C5_Witness ==
    \E p \in Procs :
        /\ Serving(p, "ScanAsset")
        /\ resp[p].status = 200
        /\ \E o1, o2 \in loc[p].before :
              /\ o1.status = "archived" /\ o2.status = "remediated"
              /\ o1.assetId = ReqAsset(p) /\ o2.assetId = ReqAsset(p)
              /\ \E l1, l2 \in links :
                    /\ l1.id = o1.id /\ l1.status = "open" /\ l1.lastSeenAt = now
                    /\ l2.id = o2.id /\ l2.status = "open"

Min(a, b) == IF a <= b THEN a ELSE b

\* Candidates the scanned asset was linked to when the scan began.
LinkedBefore(p) ==
    {v \in Candidates : LinksIn(loc[p].before, ReqAsset(p), v) # {}}

\* C6: a ScanAsset(A) that runs without concurrent mutations and answers 200
\* reports vulnerabilitiesProcessed = min(5, number of Vulnerabilities),
\* newlyLinked = the candidates that had no Link to A before the scan and
\* updatedLinks = those that had one, so the two add up to the batch size;
\* and every Link the scan created has status open.
C6_ScanCounters ==
    \A p \in Procs :
        (Serving(p, "ScanAsset") /\ resp[p].status = 200) =>
           /\ resp[p].vulnerabilitiesProcessed = Min(5, Cardinality(vulns))
           /\ resp[p].updatedLinks = Cardinality(LinkedBefore(p))
           /\ resp[p].newlyLinked = Cardinality(Candidates \ LinkedBefore(p))
           /\ resp[p].newlyLinked + resp[p].updatedLinks = resp[p].vulnerabilitiesProcessed
           /\ \A l \in links :
                 l.id \notin {old.id : old \in loc[p].before} =>
                    /\ l.status = "open"
                    /\ l.assetId = ReqAsset(p)
                    /\ l.vulnerabilityId \in Candidates

\* A scan of a store with more than five vulnerabilities has answered, having
\* created some Links and refreshed others.
C6_Witness ==
    \E p \in Procs :
        /\ Serving(p, "ScanAsset")
        /\ Cardinality(vulns) > 5
        /\ resp[p].vulnerabilitiesProcessed = 5
        /\ resp[p].newlyLinked > 0
        /\ resp[p].updatedLinks > 0
        /\ LinksIn(loc[p].before, ReqAsset(p), 1) # {}

C8_ScanUnknownAsset ==
    [][\A p \in Procs :
          /\ (Began(p) /\ req'[p].op = "ScanAsset") => links' = links
          /\ (/\ pc[p] = "sc_asset" /\ pc'[p] # "sc_asset"
              /\ ReqAsset(p) \notin AssetIds) =>
                /\ pc'[p] = "done"
                /\ resp'[p].status = 404
                /\ links' = links]_vars

C8_Witness ==
    \E p \in Procs :
        /\ Serving(p, "ScanAsset")
        /\ ReqAsset(p) \notin AssetIds
        /\ resp[p].status = 404

\* An UpdateLink or DeleteLink whose joinId names a Link of another asset.
WrongAsset(p) ==
    /\ Began(p)
    /\ req'[p].op \in {"UpdateLink", "DeleteLink"}
    /\ \E l \in links : /\ l.id = ParseInt(req'[p].joinId)
                        /\ l.assetId # ParseInt(req'[p].assetId)

\* An UpdateLink body the interface accepts: a status of the closed set or
\* none, a parseable lastSeenAt or none, and at least one field.
WellFormedUpdate(r) ==
    /\ r.status \in Statuses \cup {Undefined}
    /\ r.lastSeenAt = Undefined \/ NewDate(r.lastSeenAt) # InvalidDate
    /\ \E f \in {r.status, r.details, r.remediationNotes, r.lastSeenAt} : f # Undefined

\* C9: UpdateLink and DeleteLink whose joinId names an existing Link that
\* belongs to a different asset than assetId answer 404 and leave that Link
\* as it was.
C9_ScopedLookup ==
    [][\A p \in Procs :
          WrongAsset(p) =>
             /\ links' = links
             /\ (req'[p].op = "DeleteLink" \/ WellFormedUpdate(req'[p])) =>
                   resp'[p].status = 404]_vars

\* One request tried to update, another to delete, a Link through the wrong
\* asset; the Link is still there.
C9_Witness ==
    \E p, q \in Procs :
        /\ Serving(p, "UpdateLink") /\ Serving(q, "DeleteLink")
        /\ resp[p].status = 404 /\ resp[q].status = 404
        /\ \E l \in links : l.id = ReqJoin(p) /\ l.assetId # ReqAsset(p)
        /\ \E l \in links : l.id = ReqJoin(q) /\ l.assetId # ReqAsset(q)

\* C10: deleting an Asset (or a Vulnerability) removes exactly the Links that
\* reference it: afterwards no Link with that assetId (vulnerabilityId)
\* exists, and every other Link is still present, unchanged.
C10_Cascade ==
    [][\A p \in Procs :
          /\ (Began(p) /\ req'[p].op = "DeleteAsset" /\ resp'[p].status = 200) =>
                /\ links' = {l \in links : l.assetId # ParseInt(req'[p].assetId)}
                /\ ParseInt(req'[p].assetId) \notin {a.id : a \in assets'}
          /\ (Began(p) /\ req'[p].op = "DeleteVulnerability" /\ resp'[p].status = 200) =>
                /\ links' = {l \in links : l.vulnerabilityId # ParseInt(req'[p].vulnerabilityId)}
                /\ ParseInt(req'[p].vulnerabilityId) \notin {v.id : v \in vulns'}]_vars

\* An asset with a Link was deleted after a second asset had been linked: the
\* first Link is gone, the second is still there.
C10_Witness ==
    \E p, q \in Procs :
        /\ Serving(p, "DeleteAsset") /\ resp[p].status = 200
        /\ Serving(q, "CreateLink") /\ resp[q].status = 201
        /\ ReqAsset(q) # ReqAsset(p)
        /\ Cardinality(links) = 1
        /\ nextLinkId = 3
        /\ \E l \in links : l.id = resp[q].link

\* The step is a successful UpdateLink on the Link old that supplied the
\* status the Link has afterwards.
UpdateSetsStatus(old, new) ==
    \E p \in Procs :
        /\ Began(p)
        /\ req'[p].op = "UpdateLink"
        /\ resp'[p].status = 200
        /\ ParseInt(req'[p].joinId) = old.id
        /\ ParseInt(req'[p].assetId) = old.assetId
        /\ req'[p].status # Undefined
        /\ new.status = req'[p].status

\* The step is the write of a ScanAsset on the Link's asset that had found
\* the Link for its vulnerability; it leaves the Link open.
ScanReobserves(old, new) ==
    \E p \in Procs :
        /\ ScanRefreshes(p)
        /\ ReqAsset(p) = old.assetId
        /\ Head(loc[p].todo) = old.vulnerabilityId
        /\ new.status = "open"

\* C11: every Link's status is one of the five values in every reachable
\* state, and a Link's status differs between two consecutive states only
\* when the step is a successful UpdateLink on that Link that supplied a
\* status, or a ScanAsset on its asset that re-observed its vulnerability;
\* every other step, an UpdateLink without a status included, keeps it.
C11_StatusMovesOnRequest ==
    /\ [](\A l \in links : l.status \in Statuses)
    /\ [][\A old \in links, new \in links' :
             (old.id = new.id /\ old.status # new.status) =>
                (UpdateSetsStatus(old, new) \/ ScanReobserves(old, new))]_vars

\* One UpdateLink has moved a Link to remediated and another, which supplied
\* only details, has succeeded on the same Link.
C11_Witness ==
    \E p, q \in Procs :
        /\ Serving(p, "UpdateLink") /\ resp[p].status = 200
        /\ req[p].status = Undefined /\ req[p].details = "d1"
        /\ Serving(q, "UpdateLink") /\ resp[q].status = 200
        /\ req[q].status = "remediated" /\ req[q].n > req[p].n
        /\ \E l \in links :
              /\ l.id = ReqJoin(p) /\ l.id = ReqJoin(q)
              /\ l.details = "d1" /\ l.status = "remediated"

\* The step is an UpdateLink that answers 200.
UpdateSucceeds(p) ==
    /\ Began(p)
    /\ req'[p].op = "UpdateLink"
    /\ resp'[p].status = 200

\* A body property was supplied.
Supplied(x) == x # Undefined

\* C12: a successful UpdateLink changes exactly the fields among status,
\* details, remediationNotes and lastSeenAt that the request supplied, leaves
\* the unsupplied ones and the Link's id, assetId and vulnerabilityId
\* unchanged, moves the Link's updatedAt forward to the time of the update,
\* and changes no other Link.
C12_OnlySuppliedFields ==
    [][\A p \in Procs :
          UpdateSucceeds(p) =>
             LET r == req'[p]
             IN  \E old \in links, new \in links' :
                    /\ old.id = ParseInt(r.joinId)
                    /\ links' \ {new} = links \ {old}
                    /\ new.id = old.id
                    /\ new.assetId = old.assetId
                    /\ new.vulnerabilityId = old.vulnerabilityId
                    /\ new.status = IF Supplied(r.status) THEN r.status ELSE old.status
                    /\ new.details = IF Supplied(r.details) THEN r.details ELSE old.details
                    /\ new.remediationNotes = IF Supplied(r.remediationNotes)
                                              THEN r.remediationNotes
                                              ELSE old.remediationNotes
                    /\ new.lastSeenAt = IF Supplied(r.lastSeenAt)
                                        THEN DecimalValue[r.lastSeenAt]
                                        ELSE old.lastSeenAt
                    /\ new.updatedAt = now
                    /\ new.updatedAt >= old.updatedAt]_vars

\* An UpdateLink that supplied status and lastSeenAt and nothing else has
\* succeeded on one of two Links.
C12_Witness ==
    \E p \in Procs :
        /\ Serving(p, "UpdateLink") /\ resp[p].status = 200
        /\ req[p].status = "ignored" /\ req[p].lastSeenAt = "2"
        /\ req[p].details = Undefined /\ req[p].remediationNotes = Undefined
        /\ Cardinality(links) = 2
        /\ \E l \in links :
              /\ l.id = ReqJoin(p) /\ l.status = "ignored" /\ l.lastSeenAt = 2
              /\ l.updatedAt = now /\ l.details = Null

\* The request p is serving after the step is a CreateLink or UpdateLink that
\* supplied a status outside the closed set.
SuppliesInvalidStatus(p) ==
    /\ req'[p].op \in {"CreateLink", "UpdateLink"}
    /\ Supplied(req'[p].status)
    /\ req'[p].status \notin Statuses

\* C13: UpdateLink and CreateLink whose request supplies a status that is
\* not one of the five values (any supplied value, an empty or null one
\* included) answer 400, never 500, and leave the store unchanged.
C13_InvalidStatusRejected ==
    [][\A p \in Procs :
          (SuppliesInvalidStatus(p) /\ (Began(p) \/ pc'[p] # pc[p])) =>
             /\ store' = store
             /\ Answered(p) => resp'[p].status = 400]_vars

\* A CreateLink answers from a store step while one of its parents does not
\* exist.
AnswersWithoutParent(p) ==
    /\ Answered(p) /\ ~Began(p)
    /\ req[p].op = "CreateLink"
    /\ ~AssetExists(ReqAsset(p)) \/ ~VulnerabilityExists(ReqVuln(p))

\* C14: CreateLink answers 404 and creates no Link whenever the assetId or
\* the vulnerabilityId does not resolve to an existing record, also when the
\* parent is deleted by a concurrent request after CreateLink's existence
\* check and before its insert.
C14_MissingParentNotFound ==
    [][\A p \in Procs :
          AnswersWithoutParent(p) => (resp'[p].status = 404 /\ links' = links)]_vars

\* The step is a CreateLink that answers 201.
CreateSucceeds(p) ==
    /\ Answered(p)
    /\ req'[p].op = "CreateLink"
    /\ resp'[p].status = 201

\* C15: a CreateLink that answers 201 adds exactly one Link for the requested
\* pair, whose status is the supplied status, or open when none was supplied,
\* and whose lastSeenAt is the supplied time, or the current time when none
\* was supplied; every Link that existed before is unchanged.
C15_CreatedAsRequested ==
    [][\A p \in Procs :
          CreateSucceeds(p) =>
             LET r == req'[p]
             IN  \E new \in links' :
                    /\ new \notin links
                    /\ links' = links \cup {new}
                    /\ new.id = resp'[p].link
                    /\ new.assetId = ParseInt(r.assetId)
                    /\ new.vulnerabilityId = ParseInt(r.vulnerabilityId)
                    /\ new.status = IF Supplied(r.status) THEN r.status ELSE "open"
                    /\ new.lastSeenAt = IF Supplied(r.lastSeenAt)
                                        THEN DecimalValue[r.lastSeenAt]
                                        ELSE now]_vars

\* The step is a DeleteLink request.
DeleteLinkStep(p) == Began(p) /\ req'[p].op = "DeleteLink"

\* C17: DeleteLink on a joinId that does not exist answers 404 and changes
\* nothing, the asset and every Link remain as they were; a DeleteLink that
\* answers 200 removes exactly the Link with that id and leaves the Asset,
\* the Vulnerability and every other Link unchanged.
C17_DeleteLinkFrame ==
    [][\A p \in Procs :
          DeleteLinkStep(p) =>
             LET j == ParseInt(req'[p].joinId)
             IN  /\ (\A l \in links : l.id # j) =>
                       (resp'[p].status = 404 /\ store' = store)
                 /\ resp'[p].status = 200 =>
                       /\ \E old \in links : old.id = j /\ links' = links \ {old}
                       /\ assets' = assets
                       /\ vulns' = vulns
                 /\ resp'[p].status # 200 => store' = store]_vars

\* One DeleteLink has removed a Link; another DeleteLink, on a joinId that no
\* Link has, under an existing asset, was answered 404.
C17_Witness ==
    \E p, q \in Procs :
        /\ Serving(p, "DeleteLink") /\ resp[p].status = 200
        /\ Serving(q, "DeleteLink") /\ resp[q].status = 404
        /\ AssetExists(ReqAsset(q))
        /\ \A l \in links : l.id # ReqJoin(q) /\ l.id # ReqJoin(p)

\* The list a ListLinks answers with is made of exactly the Links of the set
\* ls, one element each, with the Link's fields and its Vulnerability.
ListsExactly(q, ls) ==
    /\ Len(q) = Cardinality(ls)
    /\ {q[i].joinId : i \in 1..Len(q)} = {l.id : l \in ls}
    /\ \A i \in 1..Len(q) :
          \E l \in ls, v \in vulns :
             /\ l.id = q[i].joinId
             /\ q[i].assetId = l.assetId
             /\ q[i].status = l.status
             /\ q[i].details = l.details
             /\ q[i].remediationNotes = l.remediationNotes
             /\ q[i].lastSeenAt = l.lastSeenAt
             /\ q[i].updatedAt = l.updatedAt
             /\ v.id = l.vulnerabilityId
             /\ q[i].vulnerability = v

\* C16: ListLinksForAsset answers 404 when the asset does not exist;
\* otherwise it returns exactly the Links whose assetId is the requested one
\* (none of another asset, none missing, an empty list when there are none),
\* each with its Vulnerability, in non-increasing lastSeenAt order.
C16_ListLinksForAsset ==
    [][\A p \in Procs :
          /\ (pc[p] = "ls_asset" /\ pc'[p] # "ls_asset") =>
                IF ReqAsset(p) \in {a.id : a \in assets}
                THEN pc'[p] = "ls_select"
                ELSE pc'[p] = "done" /\ resp'[p].status = 404
          /\ (pc[p] = "ls_select" /\ pc'[p] # "ls_select") =>
                LET q == resp'[p].list
                IN  /\ pc'[p] = "done"
                    /\ resp'[p].status = 200
                    /\ ListsExactly(q, {l \in links : l.assetId = ReqAsset(p)})
                    /\ \A i, j \in 1..Len(q) :
                          i < j => q[i].lastSeenAt >= q[j].lastSeenAt]_vars

\* One ListLinks has returned the three Links of its asset, seen at different
\* times, while the other asset has Links too, and another ListLinks, for an
\* asset that does not exist, was answered 404.
C16_Witness ==
    \E p, q \in Procs :
        /\ Serving(p, "ListLinks") /\ resp[p].status = 200
        /\ Len(resp[p].list) = 3
        /\ resp[p].list[1].lastSeenAt > resp[p].list[3].lastSeenAt
        /\ \E l \in links : l.assetId # ReqAsset(p)
        /\ Serving(q, "ListLinks") /\ resp[q].status = 404
        /\ ~AssetExists(ReqAsset(q))

\* Open Links whose Vulnerability has the severity sv.
OpenOfSeverity(sv) ==
    {l \in links : /\ l.status = "open"
                    /\ \E v \in vulns : v.id = l.vulnerabilityId /\ v.severity = sv}

\* C18: Statistics() on a store that is not being mutated returns
\* totalAssets = number of Assets, totalVulnerabilities = number of
\* Vulnerabilities, totalOpenVulnerabilityInstances = number of Links with
\* status open, and for each of the five severities the number of open Links
\* whose Vulnerability has that severity, with all five keys present (0 when
\* there are none).
C18_Statistics ==
    \A p \in Procs :
        (Serving(p, "Statistics") /\ resp[p].status = 200) =>
           /\ resp[p].totalAssets = Cardinality(assets)
           /\ resp[p].totalVulnerabilities = Cardinality(vulns)
           /\ resp[p].totalOpenVulnerabilityInstances =
                 Cardinality({l \in links : l.status = "open"})
           /\ DOMAIN resp[p].openVulnerabilitiesBySeverity =
                 {"critical", "high", "medium", "low", "informational"}
           /\ \A sv \in {"critical", "high", "medium", "low", "informational"} :
                 resp[p].openVulnerabilitiesBySeverity[sv] = Cardinality(OpenOfSeverity(sv))

\* Statistics has answered on a store of six Links of which two are open,
\* both of a high vulnerability.
C18_Witness ==
    \E p \in Procs :
        /\ Serving(p, "Statistics") /\ resp[p].status = 200
        /\ resp[p].totalAssets = 2 /\ resp[p].totalVulnerabilities = 3
        /\ resp[p].totalOpenVulnerabilityInstances = 2
        /\ Cardinality(links) = 6
        /\ resp[p].openVulnerabilitiesBySeverity["high"] = 2
        /\ resp[p].openVulnerabilitiesBySeverity["critical"] = 0
        /\ resp[p].openVulnerabilitiesBySeverity["low"] = 0

\* Open Links whose Asset and Vulnerability both resolve.
Resolvable ==
    {l \in links : /\ l.status = "open"
                    /\ \E a \in assets : a.id = l.assetId
                    /\ \E v \in vulns : v.id = l.vulnerabilityId}

\* C19: RecentActiveVulnerabilities returns the min(5, n) Links with the
\* greatest updatedAt among the n Links that have status open and whose Asset
\* and Vulnerability both resolve, in non-increasing updatedAt order; it
\* never returns a Link with another status or an unresolved parent.
C19_RecentActive ==
    [][\A p \in Procs :
          (Began(p) /\ req'[p].op = "RecentVulnerabilities") =>
             LET q == resp'[p].list
                 returned == {q[i].joinId : i \in 1..Len(q)}
             IN  /\ resp'[p].status = 200
                 /\ Len(q) = Min(5, Cardinality(Resolvable))
                 /\ Cardinality(returned) = Len(q)
                 /\ returned \subseteq {l.id : l \in Resolvable}
                 /\ \A i \in 1..Len(q) : \E l \in Resolvable :
                       l.id = q[i].joinId /\ l.updatedAt = q[i].lastSeenOrUpdatedAt
                 /\ \A i \in 1..Len(q) : \A l \in Resolvable :
                       l.id \notin returned => l.updatedAt <= q[i].lastSeenOrUpdatedAt
                 /\ \A i, j \in 1..Len(q) :
                       i < j => q[i].lastSeenOrUpdatedAt >= q[j].lastSeenOrUpdatedAt]_vars

\* The caller of the request has no authenticated session.
Unauthenticated(r) == ~r.session.exists \/ r.session.user = Undefined

\* C20: every link, scan, asset, vulnerability and dashboard route called
\* without an authenticated session answers 401 and leaves every Asset,
\* Vulnerability and Link unchanged, whatever the path parameters and body
\* are: the 401 comes before any 400, 404 or 409.
C20_Unauthorized ==
    [][\A p \in Procs :
          /\ (Began(p) /\ Unauthenticated(req'[p])) =>
                /\ pc'[p] = "done"
                /\ resp'[p].status = 401
                /\ store' = store
          /\ (Unauthenticated(req[p]) /\ ~Began(p)) =>
                (pc'[p] = pc[p] /\ resp'[p] = resp[p])]_vars

\* A caller whose session has no user asked to delete an existing Link
\* through its asset and was answered 401; the Link is still there.
C20_Witness ==
    \E p \in Procs :
        /\ Serving(p, "DeleteLink")
        /\ req[p].session = AnonymousSession
        /\ resp[p].status = 401
        /\ \E l \in links : l.id = ReqJoin(p) /\ l.assetId = ReqAsset(p)

\* A CreateVulnerability with a complete body whose name is in use, or an
\* UpdateVulnerability of an existing Vulnerability to a name that another
\* one has.
TakesUsedName(p) ==
    /\ Began(p)
    /\ \/ /\ req'[p].op = "CreateVulnerability"
          /\ Truthy(req'[p].name)
          /\ req'[p].description = "d1" /\ req'[p].severity = "high"
          /\ \E x \in vulns : x.name = req'[p].name
       \/ /\ req'[p].op = "UpdateVulnerability"
          /\ \E x, y \in vulns :
                /\ x.id = ParseInt(req'[p].vulnerabilityId)
                /\ y.id # x.id /\ y.name = req'[p].name

\* C21: Vulnerability names are unique in every reachable state: creating a
\* Vulnerability with a name already in use, or updating a Vulnerability's
\* name to one used by a different Vulnerability, answers 409 and leaves the
\* store unchanged.
C21_UniqueNames ==
    /\ [](\A x, y \in vulns : x.name = y.name => x = y)
    /\ [][\A p \in Procs :
             TakesUsedName(p) => (resp'[p].status = 409 /\ store' = store)]_vars

\* A Vulnerability was created under a new name, and the renaming of another
\* one to that name was refused.
C21_Witness ==
    \E p, q \in Procs :
        /\ Serving(p, "CreateVulnerability") /\ resp[p].status = 201
        /\ Serving(q, "UpdateVulnerability") /\ resp[q].status = 409
        /\ req[q].name = req[p].name
        /\ \E x \in vulns : x.id = resp[p].link /\ x.name = req[p].name
        /\ \E y \in vulns : y.id = ReqVuln(q) /\ y.name # req[q].name

\* The scan of p fails in this step: a statement of its loop threw.
ScanFails(p) ==
    /\ pc[p] = "sc_write" /\ pc'[p] = "done"
    /\ resp'[p].status = 500

\* C22: ScanAsset has no rollback.  When the processing of the k-th candidate
\* fails, the store is left as it was: the inserts and updates already made
\* for candidates 1..k-1 remain committed.
C22_NoRollback ==
    [][\A p \in Procs : ScanFails(p) => store' = store]_vars

\* A scan linked its first candidate, failed at the second one, and the Link
\* it created is in the store.
C22_Witness ==
    \E p \in Procs :
        /\ Serving(p, "ScanAsset") /\ resp[p].status = 500
        /\ loc[p].newlyLinked = 1 /\ Len(loc[p].todo) = 1
        /\ \E l \in links :
              /\ l.assetId = ReqAsset(p) /\ l.vulnerabilityId = 2
              /\ l.id \notin {old.id : old \in loc[p].before}

\* A statement of the scan's loop throws in this step: the insert for a
\* candidate findFirst found no Link for is refused by the store.
ScanStatementFails(p) ==
    /\ pc[p] = "sc_write" /\ pc'[p] # "sc_write"
    /\ loc[p].existing = NoLink
    /\ InsertOutcome(ReqAsset(p), Head(loc[p].todo), "open", now) # "ok"

\* C23: when the insert or update for one candidate of a scan fails, the
\* failure is caught, the candidate is counted neither under newlyLinked nor
\* under updatedLinks, the remaining candidates are still processed, and the
\* scan answers with its counters instead of aborting.
C23_FailureIsolated ==
    [][\A p \in Procs :
          ScanStatementFails(p) =>
             /\ resp'[p].status # 500
             /\ loc'[p].newlyLinked = loc[p].newlyLinked
             /\ loc'[p].updatedLinks = loc[p].updatedLinks
             /\ loc'[p].todo = Tail(loc[p].todo)
             /\ (Tail(loc[p].todo) # <<>> => pc'[p] = "sc_find")
             /\ (Tail(loc[p].todo) = <<>> => resp'[p].status = 200)]_vars

\* The rows the scan's UPDATE ... WHERE id = existingLink.id matches.
RowsMatched(p) == {l \in links : l.id = loc[p].existing.id}

\* C24: on a scan that answers 200, under any interleaving, newlyLinked is
\* the number of Links the scan inserted and updatedLinks the number of
\* existing Links it modified: the step that completes the scan counts a Link
\* under newlyLinked exactly when it inserts one, and under updatedLinks
\* exactly when its update reaches a row, so a Link deleted between the
\* scan's existence check and its update is not counted.
C24_CountersAreWrites ==
    [][\A p \in Procs :
          (ScanCompletes(p) /\ pc[p] = "sc_write") =>
             /\ loc'[p].newlyLinked - loc[p].newlyLinked
                   = Cardinality(links') - Cardinality(links)
             /\ loc'[p].updatedLinks - loc[p].updatedLinks
                   = IF loc[p].existing = NoLink THEN 0
                     ELSE Cardinality(RowsMatched(p))]_vars

\* What the request p begins with in this step is invalid input: a path
\* parameter that is not a number, a vulnerabilityId that is missing or not a
\* number, or a supplied status outside the closed set.
BeginsInvalid(p) ==
    /\ Began(p)
    /\ LET r == req'[p]
       IN  \/ /\ r.op = "CreateLink"
              /\ \/ IsNaN(ParseInt(r.assetId))
                 \/ r.vulnerabilityId = Undefined
                 \/ IsNaN(ParseInt(r.vulnerabilityId))
                 \/ (Supplied(r.status) /\ r.status \notin Statuses)
           \/ /\ r.op = "UpdateLink"
              /\ \/ IsNaN(ParseInt(r.assetId))
                 \/ IsNaN(ParseInt(r.joinId))
                 \/ (Supplied(r.status) /\ r.status \notin Statuses)

\* C25: CreateLink and UpdateLink validate their input before any store
\* access.  A request with a missing or non-numeric vulnerabilityId, a
\* non-numeric assetId or joinId, or a status outside the closed set is
\* answered 400 at once, also when the asset or Link it names does not exist,
\* and no statement is sent to the store.
C25_ValidationFirst ==
    [][\A p \in Procs :
          BeginsInvalid(p) =>
             /\ pc'[p] = "done"
             /\ resp'[p].status = 400
             /\ store' = store]_vars

\* C26: in every reachable state, under any interleaving of CreateLink and
\* ScanAsset with the deletes of assets and vulnerabilities, every Link's
\* assetId names an existing Asset and its vulnerabilityId an existing
\* Vulnerability: no Link outlives either parent.
C26_NoOrphanLinks ==
    \A l \in links : l.assetId \in AssetIds /\ l.vulnerabilityId \in VulnIds

\* A CreateLink found its asset, the asset was deleted by a concurrent
\* request, and the insert came after the delete; another Link is in the
\* store.
C26_Witness ==
    \E p, q \in Procs :
        /\ Serving(p, "CreateLink") /\ resp[p].status = 500
        /\ Serving(q, "DeleteAsset") /\ resp[q].status = 200
        /\ ReqAsset(p) = ReqAsset(q)
        /\ req[p].n > req[q].n
        /\ links # {}

\* C27: whenever the scan's update path writes to an existing Link, the
\* Link's status right after the write is open, also when a concurrent
\* UpdateLink moved the status from open to another value between the scan's
\* read of the Link and its write.
C27_RefreshedIsOpen ==
    [][\A p \in Procs :
          ScanRefreshes(p) =>
             \A l \in links' : l.id \in {old.id : old \in RowsMatched(p)} => l.status = "open"]_vars

\* The sum of the five per-severity counts of a response.
SeveritySum(by) ==
    by["critical"] + by["high"] + by["medium"] + by["low"] + by["informational"]

\* C28: the numbers one Statistics() call returns are consistent with each
\* other also while other requests mutate the store between its four
\* queries: the five per-severity open counts add up to
\* totalOpenVulnerabilityInstances.
C28_StatisticsConsistent ==
    \A p \in Procs :
        (Serving(p, "Statistics") /\ resp[p].status = 200) =>
           SeveritySum(resp[p].openVulnerabilitiesBySeverity)
              = resp[p].totalOpenVulnerabilityInstances

\* A step of the scan that p serves.
ScanStep(p) ==
    \/ Began(p) /\ req'[p].op = "ScanAsset"
    \/ pc[p] \in {"sc_asset", "sc_select", "sc_find", "sc_write"} /\ pc'[p] # pc[p]

\* The Link l may be written by the scan of p: it links the scanned asset to
\* a candidate.
InScanReach(p, l) ==
    l.assetId = ParseInt(req'[p].assetId) /\ l.vulnerabilityId \in Candidates

Identity(ls) == {<<l.id, l.assetId, l.vulnerabilityId, l.status>> : l \in ls}

\* q served a scan that answered 200, and p the next request, a scan of the
\* same asset that has answered 200 too.
ScannedTwice(q, p) ==
    /\ p # q
    /\ Serving(q, "ScanAsset") /\ resp[q].status = 200
    /\ Serving(p, "ScanAsset") /\ resp[p].status = 200
    /\ req[q].n > req[p].n
    /\ ReqAsset(p) = ReqAsset(q)

\* C30: of two scans of one asset in a row, with no other operation in
\* between, the second returns newlyLinked = 0 and updatedLinks =
\* vulnerabilitiesProcessed, and the Links after it have the ids, pairs and
\* statuses of the Links after the first; only lastSeenAt and updatedAt of
\* the candidate Links may differ.
C30_ScanTwice ==
    \A p, q \in Procs :
        ScannedTwice(q, p) =>
           /\ resp[p].newlyLinked = 0
           /\ resp[p].updatedLinks = resp[p].vulnerabilitiesProcessed
           /\ Identity(links) = Identity(loc[p].before)
           /\ \A l \in links :
                 \E old \in loc[p].before :
                    /\ old.id = l.id
                    /\ old.details = l.details
                    /\ old.remediationNotes = l.remediationNotes
                    /\ (old # l => (l.assetId = ReqAsset(p) /\ l.vulnerabilityId \in Candidates))

\* Two scans of asset 1 in a row have answered: the first created Links, and
\* the second, at a later time, refreshed five.
C30_Witness ==
    \E p, q \in Procs :
        /\ ScannedTwice(q, p)
        /\ resp[q].newlyLinked > 0
        /\ resp[p].vulnerabilitiesProcessed = 5
        /\ \E l \in links : l \notin loc[p].before /\ l.lastSeenAt = now

====
